---------------------------- MODULE Spec2Model ----------------------------
(***************************************************************************)
(* A model of app.py: the three Flask routes (index, get_article_graph,    *)
(* get_article_content), the Cypher queries they send, and the shaping of  *)
(* the result records into the responses.                                  *)
(*                                                                         *)
(* Python and driver values are modelled as follows.                       *)
(*   - A value that may be None/null is a set with at most one element:    *)
(*     {} is None, {v} is v.                                               *)
(*   - A property map (neo4j Entity properties, a dict) is a function      *)
(*     whose domain is the set of keys that are present.                   *)
(*   - A neo4j Node or Relationship is a Mapping over its properties: its  *)
(*     truth value in `if connected` is len(properties) > 0.               *)
(*   - A python dict that is iterated (bias_groups) is a sequence of       *)
(*     entries in insertion order.                                         *)
(*   - String literals are written without diacritics.                     *)
(***************************************************************************)
EXTENDS Integers, Sequences, FiniteSets, TLC

VARIABLES store,          \* the content of the graph store (read-only)
          open_sessions,  \* sessions of the driver's pool that are open now
          pc,             \* per request: where the handler is
          endpoint,       \* per request: "index" | "graph" | "content"
          article_id,     \* per request: the route argument
          session,        \* per request: "none" | "open" | "closed"
          result,         \* per request: the records of session.run
          cursor,         \* per request: the next record the for loop reads
          nodes,          \* per request: get_article_graph's nodes list
          edges,          \* per request: get_article_graph's edges list
          node_ids,       \* per request: get_article_graph's node_ids set
          bias_groups,    \* per request: index's nested dict
          response,       \* per request: {} or {[status, body]}
          acquired,       \* per request: sessions it has opened so far
          queries,        \* per request: queries it has issued so far
          failed          \* per request: the store raised during the request

vars == <<store, open_sessions, pc, endpoint, article_id, session, result,
          cursor, nodes, edges, node_ids, bias_groups, response, acquired,
          queries, failed>>

-----------------------------------------------------------------------------
(* Bounds of the model. *)

\* Relationships in a graph store.
MaxRels == 3
\* Articles in an article store.
MaxArticles == 2
\* Requests in flight in the concurrent specification.
MaxRequests == 2

-----------------------------------------------------------------------------
(* Python values. *)

PyStr(s) == [t |-> "str", s |-> s]
PyInt(n) == [t |-> "int", i |-> n]
PyNone == [t |-> "none"]

\* bool(v) of a route argument.
PyTruthy(v) ==
    CASE v.t = "str" -> v.s # ""
      [] v.t = "int" -> v.i # 0
      [] OTHER -> FALSE

IsInstanceStr(v) == v.t = "str"

EmptyProps == [k \in {} |-> ""]

\* Entity.get(key, default).
Get(entity, key, default) ==
    IF key \in DOMAIN entity.props THEN entity.props[key] ELSE default

\* Entity[key] in Cypher (a.bias): null when the property is absent.
Prop(entity, key) ==
    IF key \in DOMAIN entity.props THEN {entity.props[key]} ELSE {}

\* bool(entity) of a neo4j Node or Relationship: Entity is a Mapping, so it
\* is len(entity) > 0, the number of its properties.
EntityTruthy(entity) == DOMAIN entity.props # {}

\* bool(x) of a record field that is None or an Entity.
Truthy(opt) == \E e \in opt : EntityTruthy(e)

\* str.lower() on the strings of the model.
Lower(s) ==
    CASE s = "Osoba" -> "osoba"
      [] s = "Lokacija" -> "lokacija"
      [] s = "Entity" -> "entity"
      [] s = "Article" -> "article"
      [] s = "Levo" -> "levo"
      [] s = "Danas" -> "danas"
      [] s = "Nepoznat bias" -> "nepoznat bias"
      [] s = "Nepoznat izvor" -> "nepoznat izvor"
      [] OTHER -> s

\* str.replace(" ", "-") on the strings of the model.
ReplaceSpaces(s) ==
    CASE s = "nepoznat bias" -> "nepoznat-bias"
      [] s = "nepoznat izvor" -> "nepoznat-izvor"
      [] OTHER -> s

\* x or default, for a string or None.
OrDefault(opt, default) ==
    IF opt = {} \/ opt = {""} THEN default ELSE CHOOSE v \in opt : TRUE

RECURSIVE Flatten(_)
Flatten(ss) == IF ss = <<>> THEN <<>> ELSE Head(ss) \o Flatten(Tail(ss))

-----------------------------------------------------------------------------
(* The graph store. *)

Node(id, labels, props) == [element_id |-> id, labels |-> labels, props |-> props]

Rel(type, start, end, props) ==
    [type |-> type, start |-> start, end |-> end, props |-> props]

IsArticle(n) == \E k \in 1..Len(n.labels) : n.labels[k] = "Article"

TheArticle ==
    Node("a1", <<"Article">>, [title |-> "T1", bias |-> "Levo", source |-> "Danas"])

\* What an entity node can look like: labels in the order the driver
\* iterates them, and properties.
EntityKinds ==
    { [labels |-> <<"Osoba">>, props |-> [name |-> "Ana"]],
      [labels |-> <<>>, props |-> [title |-> "Grad"]],
      [labels |-> <<"Lokacija", "Osoba">>, props |-> [name |-> "Ana", title |-> "Grad"]],
      [labels |-> <<"Osoba">>, props |-> [opis |-> "x"]],
      [labels |-> <<>>, props |-> [opis |-> "x"]],
      [labels |-> <<"Osoba">>, props |-> EmptyProps] }

\* The relationships a graph store may hold, in store order.
CandidateRels ==
    << Rel("POMINJE", "a1", "e1", EmptyProps),
       Rel("POMINJE", "a1", "e2", [article |-> "T1"]),
       Rel("CITIRA", "a1", "a1", [article |-> "T1"]),
       Rel("POZNAJE", "e1", "e2", [article |-> "T1"]),
       Rel("POZNAJE", "e1", "e2", [article |-> "T2"]),
       Rel("OPISAN_U", "e1", "a1", [article |-> "T1"]),
       Rel("POZNAJE", "e2", "e1", [article |-> "T1"]) >>

RECURSIVE Pick(_, _)
\* The subsequence of seq at the positions in S.
Pick(seq, S) ==
    IF seq = <<>> THEN <<>>
    ELSE LET rest == Pick(Tail(seq), {k - 1 : k \in S \ {1}})
         IN  IF 1 \in S THEN <<Head(seq)>> \o rest ELSE rest

\* Stores with one article, two entities and up to MaxRels relationships.
GraphStores ==
    { [nodes |-> <<TheArticle, Node("e1", k1.labels, k1.props),
                   Node("e2", k2.labels, k2.props)>>,
       rels |-> Pick(CandidateRels, S)] :
        k1 \in EntityKinds, k2 \in EntityKinds,
        S \in {T \in SUBSET (1..Len(CandidateRels)) : Cardinality(T) <= MaxRels} }

BiasValues == {{}, {""}, {"Levo"}, {"Nepoznat bias"}}
SourceValues == {{}, {""}, {"Danas"}}

ArticleProps(b, s) ==
    [k \in {"title"} \cup (IF b = {} THEN {} ELSE {"bias"})
                     \cup (IF s = {} THEN {} ELSE {"source"}) |->
        CASE k = "bias" -> CHOOSE v \in b : TRUE
          [] k = "source" -> CHOOSE v \in s : TRUE
          [] OTHER -> "Naslov"]

ArticleKinds == {ArticleProps(b, s) : b \in BiasValues, s \in SourceValues}

\* Stores with up to MaxArticles articles and nothing else.
ArticleStores ==
    { [nodes |-> [k \in 1..n |-> Node("a" \o ToString(k), <<"Article">>, ps[k])],
       rels |-> <<>>] :
        n \in 0..MaxArticles, ps \in [1..MaxArticles -> ArticleKinds] }

Stores == GraphStores \cup ArticleStores

\* The route arguments tried.
ArticleIdInputs ==
    {PyStr(""), PyStr("a1"), PyStr("zz"), PyStr("7"), PyInt(7), PyNone}

-----------------------------------------------------------------------------
(* The three queries. *)

NodeById(st, id) ==
    LET found == SelectSeq(st.nodes, LAMBDA n : n.element_id = id) IN found[1]

\* The rows one first-hop relationship r of the anchor a contributes:
\* OPTIONAL MATCH (connected)-[r2]->(other_connected) WHERE r2.article = a.title
OptionalMatch(st, a, r) ==
    LET connected == NodeById(st, r.end)
        matches == SelectSeq(st.rels, LAMBDA r2 :
                       /\ r2.start = connected.element_id
                       /\ Prop(r2, "article") # {}
                       /\ Prop(r2, "article") = Prop(a, "title"))
    IN  IF matches = <<>>
        THEN << [r |-> r, connected |-> connected, r2 |-> {},
                 other_connected |-> {}] >>
        ELSE [k \in 1..Len(matches) |->
                 [r |-> r, connected |-> connected, r2 |-> {matches[k]},
                  other_connected |-> {NodeById(st, matches[k].end)}]]

\* MATCH (a:Article)-[r]->(connected) WHERE elementId(a) = $article_id ...
\* RETURN r, connected, r2, other_connected
GraphQuery(st, id) ==
    LET anchors == SelectSeq(st.nodes, LAMBDA a : IsArticle(a) /\ a.element_id = id)
        FirstHop(a) == SelectSeq(st.rels, LAMBDA r : r.start = a.element_id)
    IN  Flatten([i \in 1..Len(anchors) |->
            Flatten([j \in 1..Len(FirstHop(anchors[i])) |->
                OptionalMatch(st, anchors[i], FirstHop(anchors[i])[j])])])

\* toInteger($article_id): null unless the string is a number.
ToInteger(s) == IF s = "7" THEN {7} ELSE {}

\* elementId(a) = <integer>: an element id is a string, and in Cypher a
\* string never equals an integer.
ElementIdEqualsInteger(id, n) == FALSE

\* MATCH (a:Article) WHERE elementId(a) = $article_id
\*    OR elementId(a) = toInteger($article_id) RETURN a
ContentQuery(st, id) ==
    LET matched == SelectSeq(st.nodes, LAMBDA a :
                       /\ IsArticle(a)
                       /\ \/ a.element_id = id
                          \/ \E n \in ToInteger(id) :
                                 ElementIdEqualsInteger(a.element_id, n))
    IN  [k \in 1..Len(matched) |-> [a |-> matched[k]]]

\* Result.single(): None without a record, else the first one.
Single(records) == IF records = <<>> THEN {} ELSE {records[1]}

\* The values of a.bias and a.source in the store's ascending order, which
\* puts null last.
SortedValues == << {""}, {"Danas"}, {"Levo"}, {"Nepoznat bias"}, {} >>

\* MATCH (a:Article) WITH a.bias AS bias, a.source AS source,
\* collect(a) AS articles RETURN bias, source, articles ORDER BY bias, source
IndexQuery(st) ==
    LET arts == SelectSeq(st.nodes, IsArticle)
        Group(b, s) == SelectSeq(arts, LAMBDA a :
                           Prop(a, "bias") = b /\ Prop(a, "source") = s)
        n == Len(SortedValues)
    IN  Flatten([kb \in 1..n |-> Flatten([ks \in 1..n |->
            IF Group(SortedValues[kb], SortedValues[ks]) = <<>> THEN <<>>
            ELSE << [bias |-> SortedValues[kb], source |-> SortedValues[ks],
                     articles |-> Group(SortedValues[kb], SortedValues[ks])] >>])])

-----------------------------------------------------------------------------
(* Shaping. *)

Response(status, body) == [status |-> status, body |-> body]

\* The check without its emptiness test.
InvalidArticleIdTypeOnly(id) == ~IsInstanceStr(id)

\* if not article_id or not isinstance(article_id, str)
InvalidArticleId(id) == ~PyTruthy(id) \/ ~IsInstanceStr(id)

\* next(iter(node.labels), "Entity")
FirstLabel(n) == IF n.labels = <<>> THEN "Entity" ELSE n.labels[1]

\* The membership test left out.
NotEmittedAlways(id, ids) == TRUE

\* element_id not in node_ids
NotEmitted(id, ids) == id \notin ids

\* The dict appended for record["connected"].
ShapeConnected(connected) ==
    LET node_type == Lower(FirstLabel(connected))
    IN  [id |-> connected.element_id,
         label |-> Get(connected, "name",
                       Get(connected, "title",
                           node_type \o " " \o connected.element_id)),
         group |-> node_type,
         properties |-> connected.props]

\* The dict appended for record["other_connected"].
ShapeOtherConnected(connected2) ==
    [id |-> connected2.element_id,
     label |-> Get(connected2, "name",
                   Get(connected2, "title", connected2.element_id)),
     group |-> Lower(FirstLabel(connected2)),
     properties |-> connected2.props]

\* The dict appended for record["r"]: both ends are connected.
ShapeFirstHopEdge(connected, rel) ==
    [from |-> connected.element_id, to |-> connected.element_id,
     label |-> rel.type, properties |-> rel.props]

\* The dict appended for record["r2"].
ShapeSecondHopEdge(connected, connected2, r2) ==
    [from |-> connected.element_id, to |-> connected2.element_id,
     label |-> r2.type, properties |-> r2.props]

\* One pass of get_article_graph's for loop over state [nodes, edges, node_ids].
GraphLoopBody(acc, record) ==
    LET connected == record.connected
        add1 == EntityTruthy(connected)
                  /\ NotEmitted(connected.element_id, acc.node_ids)
        nodes1 == IF add1 THEN Append(acc.nodes, ShapeConnected(connected))
                  ELSE acc.nodes
        ids1 == IF add1 THEN acc.node_ids \cup {connected.element_id}
                ELSE acc.node_ids
        rel == record.r
        edges1 == IF rel.type # "" /\ EntityTruthy(connected)
                  THEN Append(acc.edges, ShapeFirstHopEdge(connected, rel))
                  ELSE acc.edges
        add2 == /\ Truthy(record.other_connected)
                /\ \A c2 \in record.other_connected :
                       NotEmitted(c2.element_id, ids1)
        nodes2 == IF add2
                  THEN Append(nodes1, ShapeOtherConnected(
                           CHOOSE c2 \in record.other_connected : TRUE))
                  ELSE nodes1
        ids2 == IF add2
                THEN ids1 \cup {c2.element_id : c2 \in record.other_connected}
                ELSE ids1
        edges2 == IF Truthy(record.r2)
                  THEN Append(edges1, ShapeSecondHopEdge(connected,
                           CHOOSE c2 \in record.other_connected : TRUE,
                           CHOOSE r2 \in record.r2 : TRUE))
                  ELSE edges1
    IN  [nodes |-> nodes2, edges |-> edges2, node_ids |-> ids2]

\* jsonify({"nodes": nodes, "edges": edges})
GraphResponse(ns, es) == Response(200, [nodes |-> ns, edges |-> es])

\* The jsonify of a found article.
ArticleJson(article) ==
    Response(200,
        [id |-> article.element_id,
         title |-> Get(article, "title", "Article " \o article.element_id),
         date |-> Get(article, "date", ""),
         readTime |-> Get(article, "read_time", ""),
         content |-> Get(article, "text", "Sadrzaj clanka nije dostupan."),
         source |-> Get(article, "source", ""),
         bias |-> Get(article, "bias", "#"),
         url |-> Get(article, "url", "#"),
         factCheck |-> Get(article, "fact_check",
             "Nema dostupne informacije o proveri cinjenica."),
         tone |-> Get(article, "tone", "Nema dostupne analize tona.")])

\* The handler without `if not result`: result["a"] on None raises, and the
\* decorator answers 500.
ContentResponseUnchecked(single) ==
    IF single = {}
    THEN Response(500, [error |-> "Database error occurred"])
    ELSE ArticleJson((CHOOSE rec \in single : TRUE).a)

\* get_article_content after .single().
ContentResponse(single) ==
    IF single = {}
    THEN Response(404, [error |-> "Article not found"])
    ELSE ArticleJson((CHOOSE rec \in single : TRUE).a)

\* The dict index appends for one article of a record.
ShapeIndexArticle(article, source, bias) ==
    [id |-> article.element_id,
     title |-> Get(article, "title", "Article " \o article.element_id),
     source |-> source,
     bias |-> bias,
     url |-> Get(article, "url", "#"),
     content |-> Get(article, "content", "<p>Sadrzaj clanka nije dostupan.</p>"),
     date |-> Get(article, "date", ""),
     read_time |-> Get(article, "read_time", "")]

HasKey(dict, key) == \E k \in 1..Len(dict) : dict[k].key = key

Lookup(dict, key) == dict[CHOOSE k \in 1..Len(dict) : dict[k].key = key].value

\* dict[key] = value: an existing key keeps its place and loses its value.
DictSet(dict, key, value) ==
    IF HasKey(dict, key)
    THEN [k \in 1..Len(dict) |->
             IF dict[k].key = key THEN [key |-> key, value |-> value] ELSE dict[k]]
    ELSE Append(dict, [key |-> key, value |-> value])

\* One pass of index's for loop over bias_groups.
IndexLoopBody(groups, record) ==
    LET bias == OrDefault(record.bias, "Nepoznat bias")
        source == OrDefault(record.source, "Nepoznat izvor")
        articles == [k \in 1..Len(record.articles) |->
                        ShapeIndexArticle(record.articles[k], source, bias)]
        groups1 == IF ~HasKey(groups, bias) THEN DictSet(groups, bias, <<>>)
                   ELSE groups
    IN  DictSet(groups1, bias, DictSet(Lookup(groups1, bias), source, articles))

Slug(name) == ReplaceSpaces(Lower(name))

\* The template-friendly structure built from bias_groups.
Groups(groups) ==
    [i \in 1..Len(groups) |->
        [id |-> Slug(groups[i].key),
         name |-> groups[i].key,
         sources |-> [j \in 1..Len(groups[i].value) |->
             [id |-> Slug(groups[i].value[j].key),
              name |-> groups[i].value[j].key,
              articles |-> groups[i].value[j].value]]]]

\* render_template("index.html", groups=groups)
IndexResponse(groups) ==
    Response(200, [template |-> "index.html", groups |-> Groups(groups)])

\* An except branch that answers with what was accumulated so far.
handle_returning_partial(partial) == Response(200, partial)

\* handle_neo4j_exceptions' except branch.
handle_neo4j_exceptions(partial) ==
    Response(500, [error |-> "Database error occurred"])

\* index's except branch.
IndexErrorResponse ==
    Response(500, [template |-> "error.html", message |-> "Error loading articles"])

\* A session that is never closed.
SessionExitLeaking(s) == s

\* Leaving `with driver.session() as session`: an open session is closed.
SessionExit(s) == IF s = "open" THEN "closed" ELSE s

-----------------------------------------------------------------------------
(* The requests. *)

Endpoints == {"index", "graph", "content"}

Requests == DOMAIN pc

InitRequests(R) ==
    /\ open_sessions = 0
    /\ pc = [q \in R |-> "idle"]
    /\ endpoint = [q \in R |-> "index"]
    /\ article_id = [q \in R |-> PyNone]
    /\ session = [q \in R |-> "none"]
    /\ result = [q \in R |-> <<>>]
    /\ cursor = [q \in R |-> 1]
    /\ nodes = [q \in R |-> <<>>]
    /\ edges = [q \in R |-> <<>>]
    /\ node_ids = [q \in R |-> {}]
    /\ bias_groups = [q \in R |-> <<>>]
    /\ response = [q \in R |-> {}]
    /\ acquired = [q \in R |-> 0]
    /\ queries = [q \in R |-> 0]
    /\ failed = [q \in R |-> FALSE]

\* One request against any store.
Init == store \in Stores /\ InitRequests({1})

\* Flask dispatches a request to its route.
Receive(q) ==
    /\ pc[q] = "idle"
    /\ \E ep \in Endpoints, id \in ArticleIdInputs :
          /\ ep = "index" => id = PyNone
          /\ endpoint' = [endpoint EXCEPT ![q] = ep]
          /\ article_id' = [article_id EXCEPT ![q] = id]
    /\ pc' = [pc EXCEPT ![q] = "called"]
    /\ UNCHANGED <<store, open_sessions, session, result, cursor, nodes, edges,
                   node_ids, bias_groups, response, acquired, queries, failed>>

\* get_article_graph and get_article_content: return 400 on a bad identifier.
RejectInvalid(q) ==
    /\ pc[q] = "called"
    /\ endpoint[q] \in {"graph", "content"}
    /\ InvalidArticleId(article_id[q])
    /\ response' = [response EXCEPT ![q] =
                       {Response(400, [error |-> "Invalid article ID"])}]
    /\ pc' = [pc EXCEPT ![q] = "done"]
    /\ UNCHANGED <<store, open_sessions, endpoint, article_id, session, result,
                   cursor, nodes, edges, node_ids, bias_groups, acquired,
                   queries, failed>>

\* with driver.session() as session
OpenSession(q) ==
    /\ pc[q] = "called"
    /\ endpoint[q] = "index" \/ ~InvalidArticleId(article_id[q])
    /\ session' = [session EXCEPT ![q] = "open"]
    /\ acquired' = [acquired EXCEPT ![q] = @ + 1]
    /\ open_sessions' = open_sessions + 1
    /\ pc' = [pc EXCEPT ![q] = "run"]
    /\ UNCHANGED <<store, endpoint, article_id, result, cursor, nodes, edges,
                   node_ids, bias_groups, response, queries, failed>>

\* session.run(query, ...), and the empty accumulators set up after it.
RunQuery(q) ==
    /\ pc[q] = "run"
    /\ result' = [result EXCEPT ![q] =
          CASE endpoint[q] = "index" -> IndexQuery(store)
            [] endpoint[q] = "graph" -> GraphQuery(store, article_id[q].s)
            [] OTHER -> ContentQuery(store, article_id[q].s)]
    /\ queries' = [queries EXCEPT ![q] = @ + 1]
    /\ cursor' = [cursor EXCEPT ![q] = 1]
    /\ nodes' = [nodes EXCEPT ![q] = <<>>]
    /\ edges' = [edges EXCEPT ![q] = <<>>]
    /\ node_ids' = [node_ids EXCEPT ![q] = {}]
    /\ bias_groups' = [bias_groups EXCEPT ![q] = <<>>]
    /\ pc' = [pc EXCEPT ![q] = IF endpoint[q] = "content" THEN "single"
                                ELSE "records"]
    /\ UNCHANGED <<store, open_sessions, endpoint, article_id, session,
                   response, acquired, failed>>

\* get_article_graph: the for loop reads one record.
GraphRecord(q) ==
    /\ pc[q] = "records"
    /\ endpoint[q] = "graph"
    /\ cursor[q] <= Len(result[q])
    /\ LET acc == GraphLoopBody([nodes |-> nodes[q], edges |-> edges[q],
                                 node_ids |-> node_ids[q]],
                                result[q][cursor[q]])
       IN  /\ nodes' = [nodes EXCEPT ![q] = acc.nodes]
           /\ edges' = [edges EXCEPT ![q] = acc.edges]
           /\ node_ids' = [node_ids EXCEPT ![q] = acc.node_ids]
    /\ cursor' = [cursor EXCEPT ![q] = @ + 1]
    /\ UNCHANGED <<store, open_sessions, pc, endpoint, article_id, session,
                   result, bias_groups, response, acquired, queries, failed>>

\* The handler leaves the with block and returns resp.
Return(q, resp) ==
    /\ response' = [response EXCEPT ![q] = {resp}]
    /\ session' = [session EXCEPT ![q] = SessionExit(@)]
    /\ open_sessions' = open_sessions
          - (IF session[q] # SessionExit(session[q]) THEN 1 ELSE 0)
    /\ pc' = [pc EXCEPT ![q] = "done"]

\* get_article_graph: the records are exhausted.
GraphReturn(q) ==
    /\ pc[q] = "records"
    /\ endpoint[q] = "graph"
    /\ cursor[q] > Len(result[q])
    /\ Return(q, GraphResponse(nodes[q], edges[q]))
    /\ UNCHANGED <<store, endpoint, article_id, result, cursor, nodes, edges,
                   node_ids, bias_groups, acquired, queries, failed>>

\* get_article_content: .single() and the response.
ContentReturn(q) ==
    /\ pc[q] = "single"
    /\ Return(q, ContentResponse(Single(result[q])))
    /\ UNCHANGED <<store, endpoint, article_id, result, cursor, nodes, edges,
                   node_ids, bias_groups, acquired, queries, failed>>

\* index: the for loop reads one record.
IndexRecord(q) ==
    /\ pc[q] = "records"
    /\ endpoint[q] = "index"
    /\ cursor[q] <= Len(result[q])
    /\ bias_groups' = [bias_groups EXCEPT ![q] =
                          IndexLoopBody(@, result[q][cursor[q]])]
    /\ cursor' = [cursor EXCEPT ![q] = @ + 1]
    /\ UNCHANGED <<store, open_sessions, pc, endpoint, article_id, session,
                   result, nodes, edges, node_ids, response, acquired, queries,
                   failed>>

\* index: the records are exhausted.
IndexReturn(q) ==
    /\ pc[q] = "records"
    /\ endpoint[q] = "index"
    /\ cursor[q] > Len(result[q])
    /\ Return(q, IndexResponse(bias_groups[q]))
    /\ UNCHANGED <<store, endpoint, article_id, result, cursor, nodes, edges,
                   node_ids, bias_groups, acquired, queries, failed>>

\* The store raises: in driver.session(), in session.run() or while the
\* records are fetched. The with block is left and the except branch of the
\* route answers.
StoreError(q) ==
    /\ \/ pc[q] = "called" /\ (endpoint[q] = "index" \/ ~InvalidArticleId(article_id[q]))
       \/ pc[q] \in {"run", "records", "single"}
    /\ queries' = [queries EXCEPT ![q] = IF pc[q] = "run" THEN @ + 1 ELSE @]
    /\ failed' = [failed EXCEPT ![q] = TRUE]
    /\ Return(q, IF endpoint[q] = "index" THEN IndexErrorResponse
                 ELSE handle_neo4j_exceptions(
                          [nodes |-> nodes[q], edges |-> edges[q]]))
    /\ UNCHANGED <<store, endpoint, article_id, result, cursor, nodes, edges,
                   node_ids, bias_groups, acquired>>

Next ==
    \/ \E q \in Requests : Receive(q)
    \/ \E q \in Requests : RejectInvalid(q)
    \/ \E q \in Requests : OpenSession(q)
    \/ \E q \in Requests : RunQuery(q)
    \/ \E q \in Requests : GraphRecord(q)
    \/ \E q \in Requests : GraphReturn(q)
    \/ \E q \in Requests : ContentReturn(q)
    \/ \E q \in Requests : IndexRecord(q)
    \/ \E q \in Requests : IndexReturn(q)
    \/ \E q \in Requests : StoreError(q)

Spec == Init /\ [][Next]_vars

\* The stores of the concurrent specification.
ConcStores ==
    { [nodes |-> <<TheArticle, Node("e1", <<"Osoba">>, [name |-> "Ana"])>>,
       rels |-> <<Rel("POMINJE", "a1", "e1", EmptyProps)>>],
      [nodes |-> <<>>, rels |-> <<>>] }

\* MaxRequests requests in flight at once.
InitConc == store \in ConcStores /\ InitRequests(1..MaxRequests)

SpecConc == InitConc /\ [][Next]_vars

-----------------------------------------------------------------------------
(* The properties. *)

Done(q) == pc[q] = "done"

TheResponse(q) == CHOOSE resp \in response[q] : TRUE

\* The request answered 200 from get_article_graph.
GraphAnswered(q) ==
    Done(q) /\ endpoint[q] = "graph" /\ TheResponse(q).status = 200

Ids(ns) == {ns[k].id : k \in 1..Len(ns)}

StoreNode(id) == NodeById(store, id)

\* An identifier that is empty or not a string.
Malformed(id) == id.t # "str" \/ id = PyStr("")

InvalidIdResponse == Response(400, [error |-> "Invalid article ID"])

DatabaseErrorResponse == Response(500, [error |-> "Database error occurred"])

\* C1: the nodes list get_article_graph returns never holds a node whose id
\* is the identifier of the anchor article, whatever the store holds.
C1_AnchorNeverInNodes ==
    \A q \in Requests :
        GraphAnswered(q) =>
            article_id[q].s \notin Ids(TheResponse(q).body.nodes)

\* C2: each store identifier is the id of at most one entry of nodes, after
\* every record and in the response, however many records name the node and
\* whether as connected, as other_connected or as both.
C2_NodesDeduplicated ==
    \A q \in Requests :
        /\ \A i, j \in 1..Len(nodes[q]) :
               nodes[q][i].id = nodes[q][j].id => i = j
        /\ GraphAnswered(q) => TheResponse(q).body.nodes = nodes[q]

\* A node is named by two records, once as connected and once as
\* other_connected, and the graph was returned.
C2_Witness ==
    \E q \in Requests :
        /\ GraphAnswered(q)
        /\ \E i, j \in 1..Len(result[q]) :
              /\ i # j
              /\ \E c2 \in result[q][j].other_connected :
                     /\ c2.element_id = result[q][i].connected.element_id
                     /\ c2.element_id \in Ids(nodes[q])

\* C3: for a malformed identifier get_article_graph and get_article_content
\* answer 400 {"error": "Invalid article ID"}, and the request opens no
\* session and issues no query.
C3_MalformedRejectedBeforeStore ==
    \A q \in Requests :
        (pc[q] # "idle" /\ endpoint[q] \in {"graph", "content"}
            /\ Malformed(article_id[q])) =>
            /\ acquired[q] = 0
            /\ queries[q] = 0
            /\ session[q] = "none"
            /\ Done(q) => response[q] = {InvalidIdResponse}

\* Both kinds of malformed identifier were rejected.
C3_Witness ==
    \E q \in Requests :
        /\ Done(q)
        /\ endpoint[q] = "content"
        /\ article_id[q] = PyStr("")
        /\ response[q] = {InvalidIdResponse}

\* C4: for a well-formed identifier that is the element id of no Article,
\* get_article_content answers 404 {"error": "Article not found"} and not
\* 500, when the store does not fail.
C4_UnknownArticleIsNotFound ==
    \A q \in Requests :
        (Done(q) /\ endpoint[q] = "content" /\ ~Malformed(article_id[q])
            /\ ~failed[q]
            /\ ~\E k \in 1..Len(store.nodes) :
                   /\ IsArticle(store.nodes[k])
                   /\ store.nodes[k].element_id = article_id[q].s) =>
            response[q] = {Response(404, [error |-> "Article not found"])}

\* An identifier that matches nothing, in a store that holds articles, was
\* answered.
C4_Witness ==
    \E q \in Requests :
        /\ Done(q)
        /\ endpoint[q] = "content"
        /\ article_id[q] = PyStr("zz")
        /\ ~failed[q]
        /\ Len(store.nodes) > 0
        /\ TheResponse(q).status = 404

\* The label the fallback chain gives a store node.
ClaimedLabel(n) ==
    IF "name" \in DOMAIN n.props THEN n.props["name"]
    ELSE IF "title" \in DOMAIN n.props THEN n.props["title"]
    ELSE Lower(FirstLabel(n)) \o " " \o n.element_id

\* C5: every emitted node, first hop or second hop, has as label its name,
\* else its title, else "<lowercased first label> <identifier>", and a node
\* without labels has group "entity".
C5_LabelFallback ==
    \A q \in Requests :
        GraphAnswered(q) =>
            \A k \in 1..Len(TheResponse(q).body.nodes) :
                LET shaped == TheResponse(q).body.nodes[k]
                    n == StoreNode(shaped.id)
                IN  /\ shaped.label = ClaimedLabel(n)
                    /\ n.labels = <<>> => shaped.group = "entity"

\* The places of groups where the article with this id is listed.
Places(groups, id) ==
    { <<i, j, k>> \in (1..Len(groups)) \X (1..MaxArticles + 1) \X (1..MaxArticles + 1) :
        /\ j <= Len(groups[i].sources)
        /\ k <= Len(groups[i].sources[j].articles)
        /\ groups[i].sources[j].articles[k].id = id }

\* C6: groups holds every Article exactly once, in the group of its bias and
\* the sub-group of its source (a missing one mapped to its sentinel), also
\* when several records map to the same display names.
C6_EveryArticleListedOnce ==
    \A q \in Requests :
        (Done(q) /\ endpoint[q] = "index" /\ TheResponse(q).status = 200) =>
            LET groups == TheResponse(q).body.groups IN
            \A n \in 1..Len(store.nodes) :
                IsArticle(store.nodes[n]) =>
                    /\ Cardinality(Places(groups, store.nodes[n].element_id)) = 1
                    /\ \A p \in Places(groups, store.nodes[n].element_id) :
                          /\ groups[p[1]].name =
                                 OrDefault(Prop(store.nodes[n], "bias"), "Nepoznat bias")
                          /\ groups[p[1]].sources[p[2]].name =
                                 OrDefault(Prop(store.nodes[n], "source"), "Nepoznat izvor")

\* C7: when the store fails during get_article_graph or get_article_content,
\* at whatever point, the response is exactly 500 {"error": "Database error
\* occurred"}, nothing accumulated is returned, and the query is not issued
\* again.
C7_StoreFailureIsGeneric500 ==
    \A q \in Requests :
        (failed[q] /\ endpoint[q] \in {"graph", "content"}) =>
            /\ Done(q)
            /\ response[q] = {DatabaseErrorResponse}
            /\ queries[q] <= 1

\* The store failed after nodes and edges had been accumulated.
C7_Witness ==
    \E q \in Requests :
        /\ failed[q]
        /\ endpoint[q] = "graph"
        /\ Len(nodes[q]) > 0
        /\ Len(edges[q]) > 0
        /\ cursor[q] <= Len(result[q])

\* C8 as stated: every completed request has acquired one session, issued
\* exactly one query on it and released it.
C8_EveryRequestOneSessionOneQuery ==
    \A q \in Requests :
        Done(q) => acquired[q] = 1 /\ queries[q] = 1 /\ session[q] = "closed"

\* C8 as amended: a request rejected with 400 acquires no session and issues
\* no query, and so does one for which opening the session fails; every other
\* request acquires one session, issues exactly one query on it and has
\* released it when the response is returned, on success, 404 and 500. No
\* session stays open after a request completes, in any interleaving.
C8_SessionReleasedOnEveryExit ==
    /\ open_sessions = Cardinality({q \in Requests : session[q] = "open"})
    /\ \A q \in Requests :
          /\ acquired[q] <= 1
          /\ queries[q] <= 1
          /\ Done(q) =>
                /\ session[q] # "open"
                /\ \/ acquired[q] = 1 /\ queries[q] = 1 /\ session[q] = "closed"
                   \/ /\ acquired[q] = 0 /\ queries[q] = 0 /\ session[q] = "none"
                      /\ \/ response[q] = {InvalidIdResponse}
                         \/ failed[q]
    /\ (\A q \in Requests : Done(q)) => open_sessions = 0

\* One request ended in an exception after acquiring its session while
\* another one holds a session.
C8_Witness ==
    \E q1, q2 \in Requests :
        /\ q1 # q2
        /\ Done(q1) /\ failed[q1] /\ acquired[q1] = 1 /\ session[q1] = "closed"
        /\ session[q2] = "open"
        /\ open_sessions = 1

\* The edges C9 states for one record.
ClaimedEdges(record) ==
    << [from |-> record.connected.element_id,
        to |-> record.connected.element_id,
        label |-> record.r.type,
        properties |-> record.r.props] >>
    \o (IF record.r2 = {} THEN <<>>
        ELSE << [from |-> record.connected.element_id,
                 to |-> (CHOOSE c2 \in record.other_connected : TRUE).element_id,
                 label |-> (CHOOSE r2 \in record.r2 : TRUE).type,
                 properties |-> (CHOOSE r2 \in record.r2 : TRUE).props] >>)

\* C9: edges is the in-order concatenation over the records of one self-loop
\* edge on connected labelled with the first-hop type, then one edge from
\* connected to other_connected iff the record has a second-hop relationship;
\* nothing is deduplicated, and the anchor is no end of a first-hop edge.
C9_EdgesAreConcatenation ==
    \A q \in Requests :
        GraphAnswered(q) =>
            /\ TheResponse(q).body.edges =
                   Flatten([k \in 1..Len(result[q]) |-> ClaimedEdges(result[q][k])])
            /\ \A k \in 1..Len(result[q]) :
                   ClaimedEdges(result[q][k])[1].from # article_id[q].s

\* C10: after every record and in the response, the from and the to of every
\* edge are ids of entries of nodes.
C10_EdgesPointAtNodes ==
    \A q \in Requests :
        \A k \in 1..Len(edges[q]) :
            /\ edges[q][k].from \in Ids(nodes[q])
            /\ edges[q][k].to \in Ids(nodes[q])

=============================================================================
